---- MODULE Spec2Model ----
(***************************************************************************)
(* A model of the building-imagery dataset pipeline (src/dataset):         *)
(*   - the polygon area engine of utils.py (convert_osm_to_wkt, the WKT    *)
(*     load, calculate_ring_area_in_utm, calculate_polygon_area_in_utm),   *)
(*   - the processing stage of process_osm_data.py (filter, process, save),*)
(*   - the imagery stage of fetch_streetview_images.py and utils.py        *)
(*     (pitch, Street View requests, skip-if-exists, batch loop, save),    *)
(*   - the aerial fetch of aerial.py,                                      *)
(*   - the bulk fetch of fetch_osm_data.py (query, request, raw.json).     *)
(*                                                                         *)
(* Python's None is the empty sequence and a present value x is <<x>>.     *)
(* A call that can raise returns [exc, val]: exc = "" and val = <<v>> for  *)
(* a normal return of v, and exc = the exception's name otherwise.         *)
(*                                                                         *)
(* Coordinates are whole numbers.  Longitudes straddle the UTM zone        *)
(* boundary at 0 degrees, so the per-vertex zone choice of                 *)
(* utm.from_latlon is exercised.                                           *)
(***************************************************************************)
EXTENDS Integers, Sequences, FiniteSets, TLC

\* ------------------------------------------------------------------ bounds
MaxLon == 0
MaxLat == 1
MaxRing == 4
MaxHoles == 2
MaxSide == 2
MaxRaw == 2
MaxBuildings == 2
MaxRuns == 2
MaxHeight == 1
MaxCamOffset == 1
MaxElements == 2
MaxFetchRuns == 2

\* ------------------------------------------------------- program constants
DEFAULT_PITCH_ANGLE == 30
BlankImageSize == 5000

\* ------------------------------------------------------------------ values
None == <<>>
Some(x) == <<x>>
IsNone(o) == Len(o) = 0
Get(o) == o[1]

Return(v) == [exc |-> "", val |-> <<v>>]
Raise(e) == [exc |-> e, val |-> <<>>]

Abs(x) == IF x < 0 THEN -x ELSE x

\* ------------------------------------------------- numbers written as text
DigitChars == <<"0", "1", "2", "3", "4", "5", "6", "7", "8", "9">>

RECURSIVE Digits(_)
Digits(n) ==
    IF n < 10 THEN <<DigitChars[n + 1]>>
    ELSE Append(Digits(n \div 10), DigitChars[(n % 10) + 1])

\* f"{lon}" of convert_osm_to_wkt: the sign, then the decimal digits.
FormatNumber(x) == IF x < 0 THEN <<"-">> \o Digits(-x) ELSE Digits(x)

DigitValue(c) == (CHOOSE d \in 1..10 : DigitChars[d] = c) - 1

RECURSIVE ParseDigits(_, _)
ParseDigits(s, acc) ==
    IF Len(s) = 0 THEN acc
    ELSE ParseDigits(Tail(s), 10 * acc + DigitValue(Head(s)))

\* The number a WKT coordinate token denotes.
ParseNumber(s) ==
    IF Head(s) = "-" THEN -ParseDigits(Tail(s), 0) ELSE ParseDigits(s, 0)

\* ------------------------------------------------------ polygon area engine
\* utils.convert_osm_to_wkt: the (lon, lat) pairs of the nodes, closed by a
\* copy of the first pair when first and last differ, written as WKT text.
\* coords[0] of an empty list is an IndexError.
CloseAlways(coords) == Append(coords, coords[1])

CloseCoords(coords) ==
    IF coords[1] # coords[Len(coords)] THEN Append(coords, coords[1])
    ELSE coords

convert_osm_to_wkt(geometry) ==
    LET coords == [k \in 1..Len(geometry) |->
                      <<geometry[k].lon, geometry[k].lat>>]
    IN  IF Len(coords) = 0 THEN Raise("IndexError")
        ELSE LET closed == CloseCoords(coords)
             IN  Return([type |-> "POLYGON",
                         ring |-> [k \in 1..Len(closed) |->
                                     <<FormatNumber(closed[k][1]),
                                       FormatNumber(closed[k][2])>>]])

\* shapely.wkt.loads on the text of convert_osm_to_wkt: the ring's tokens are
\* read back as numbers; a ring of 1 to 3 points, or one that is not closed,
\* is refused by the geometry library (an exception, no polygon).
wkt_loads(wkt) ==
    LET pts == [k \in 1..Len(wkt.ring) |->
                   <<ParseNumber(wkt.ring[k][1]), ParseNumber(wkt.ring[k][2])>>]
    IN  IF Len(pts) \in 1..3 THEN Raise("GEOSException")
        ELSE IF Len(pts) > 0 /\ pts[1] # pts[Len(pts)]
             THEN Raise("GEOSException")
        ELSE Return([exterior |-> pts, interiors |-> <<>>])

\* utm.from_latlon(lat, lon): the zone is chosen per vertex from its
\* longitude (6-degree bands); easting is measured from the zone's central
\* meridian with the false easting of 500000, northing from the equator.
\* The projection is taken linear, 2 metres to the unit.
ZoneNumber(lon) == ((lon + 180) \div 6) + 1
CentralLongitude(zone) == (zone - 1) * 6 - 180 + 3

utm_from_latlon(lat, lon) ==
    <<500000 + 2 * (lon - CentralLongitude(ZoneNumber(lon))), 2 * lat>>

\* shapely Polygon(points).area: the absolute value of the shoelace sum,
\* halved (the coordinates are even, so the half is exact).
RECURSIVE ShoelaceSum(_, _)
ShoelaceSum(pts, k) ==
    IF k >= Len(pts) THEN 0
    ELSE pts[k][1] * pts[k + 1][2] - pts[k + 1][1] * pts[k][2]
         + ShoelaceSum(pts, k + 1)

SignedArea(pts) == ShoelaceSum(pts, 1) \div 2

Polygon_area(pts) == Abs(ShoelaceSum(pts, 1)) \div 2

\* utils.calculate_ring_area_in_utm
calculate_ring_area_in_utm(ring) ==
    Polygon_area([k \in 1..Len(ring) |-> utm_from_latlon(ring[k][2], ring[k][1])])

\* utils.calculate_polygon_area_in_utm: the loop over polygon.interiors.
RECURSIVE SubtractHoles(_, _, _)
SubtractHoles(area, interiors, k) ==
    IF k > Len(interiors) THEN area
    ELSE SubtractHoles(area - calculate_ring_area_in_utm(interiors[k]),
                       interiors, k + 1)

SkipLastHole(polygon) ==
    SubtractHoles(calculate_ring_area_in_utm(polygon.exterior),
                  SubSeq(polygon.interiors, 1, Len(polygon.interiors) - 1), 1)

calculate_polygon_area_in_utm(polygon) ==
    SubtractHoles(calculate_ring_area_in_utm(polygon.exterior),
                  polygon.interiors, 1)

\* ------------------------------------------------------------ input sets
Lons == -1..MaxLon
Lats == 0..MaxLat
Nodes == [lon : Lons, lat : Lats]

SeqsUpTo(S, n) == UNION {[1..k -> S] : k \in 0..n}

\* Rings as OSM gives them: up to MaxRing nodes, open or closed.
Geometries == SeqsUpTo(Nodes, MaxRing)

\* Polygons handed to the area function directly: a rectangle with unit
\* triangles and unit squares as holes.
Rect(w, h) == <<<<-1, 0>>, <<w - 1, 0>>, <<w - 1, h>>, <<-1, h>>, <<-1, 0>>>>
Tri(p) == <<p, <<p[1] + 1, p[2]>>, <<p[1], p[2] + 1>>, p>>
Sq(p) == <<p, <<p[1] + 1, p[2]>>, <<p[1] + 1, p[2] + 1>>, <<p[1], p[2] + 1>>, p>>
HoleRings == {Tri(p) : p \in Lons \X Lats} \cup {Sq(p) : p \in Lons \X Lats}
Polygons == [exterior : {Rect(w, h) : w \in 1..MaxSide, h \in 1..MaxSide},
             interiors : SeqsUpTo(HoleRings, MaxHoles)]

VARIABLES g_entry, geometry, g_pc, footprint_wkt, footprint_polygon,
          footprint_area, g_exc

geoVars == <<g_entry, geometry, g_pc, footprint_wkt, footprint_polygon,
             footprint_area, g_exc>>

\* The processing stage (process_osm_data.py __main__): raw.json's elements,
\* the position in the script, the filter's locals, the processed list and
\* processed.json.
VARIABLES raw_buildings, p_pc, p_i, seen_streets, filtered, stats,
          processed_buildings, processed_json, p_exc

procVars == <<raw_buildings, p_pc, p_i, seen_streets, filtered, stats,
              processed_buildings, processed_json, p_exc>>

\* The imagery stage (fetch_streetview_images.py __main__ and utils.py): the
\* environment's key, processed.json's buildings, the arguments of the run,
\* the position in the script, the loop's locals, the image files, the
\* output file, the HTTP requests sent by the current script run, what the
\* last call of download_building_images did, the number of runs, and the
\* number of pitch options of the current run that were not downloaded
\* because the image file existed (the "Skipped download" log lines).
VARIABLES GOOGLE_MAPS_KEY, GOOGLE_MAPS_API_KEY, buildings, args, s_pc, s_i,
          existing_buildings, skipped_downloads, files, output_file,
          requests, last, run, skipped_existing

imgVars == <<GOOGLE_MAPS_KEY, GOOGLE_MAPS_API_KEY, buildings, args, s_pc, s_i,
             existing_buildings, skipped_downloads, files, output_file,
             requests, last, run, skipped_existing>>

\* The fetch stage (fetch_osm_data.py __main__): the -n argument, the
\* position in the script, the query, the parsed response, raw.json, the
\* exception that ended the script; and, of the current run, the kind of
\* response received, the number of calls of save_osm_data, raw.json as it
\* was when the run started, and the number of runs.
VARIABLES num_buildings, f_pc, query, osm_data, raw_json, f_exc, f_response,
          save_calls, raw_json_before, f_run

fetchVars == <<num_buildings, f_pc, query, osm_data, raw_json, f_exc,
               f_response, save_calls, raw_json_before, f_run>>

vars == <<geoVars, procVars, imgVars, fetchVars>>

\* The area pipeline of process_osm_building (lines 42, 45 and 52), one call
\* at a time, on an OSM ring; or calculate_polygon_area_in_utm on a polygon
\* with holes.
GeoInit ==
    /\ footprint_wkt = None
    /\ footprint_area = None
    /\ g_exc = ""
    /\ \/ /\ g_entry = "osm"
          /\ geometry \in Geometries
          /\ g_pc = "convert"
          /\ footprint_polygon = None
       \/ /\ g_entry = "polygon"
          /\ geometry = <<>>
          /\ g_pc = "area"
          /\ footprint_polygon \in {Some(p) : p \in Polygons}

GeoConvert ==
    /\ g_pc = "convert"
    /\ LET r == convert_osm_to_wkt(geometry)
       IN  /\ footprint_wkt' = r.val
           /\ g_exc' = r.exc
           /\ g_pc' = IF r.exc = "" THEN "loads" ELSE "raised"
    /\ UNCHANGED <<g_entry, geometry, footprint_polygon, footprint_area>>
    /\ UNCHANGED <<procVars, imgVars, fetchVars>>

GeoLoads ==
    /\ g_pc = "loads"
    /\ LET r == wkt_loads(Get(footprint_wkt))
       IN  /\ footprint_polygon' = r.val
           /\ g_exc' = r.exc
           /\ g_pc' = IF r.exc = "" THEN "area" ELSE "raised"
    /\ UNCHANGED <<g_entry, geometry, footprint_wkt, footprint_area>>
    /\ UNCHANGED <<procVars, imgVars, fetchVars>>

GeoArea ==
    /\ g_pc = "area"
    /\ footprint_area' = Some(calculate_polygon_area_in_utm(Get(footprint_polygon)))
    /\ g_pc' = "returned"
    /\ UNCHANGED <<g_entry, geometry, footprint_wkt, footprint_polygon, g_exc>>
    /\ UNCHANGED <<procVars, imgVars, fetchVars>>

GeoNext == GeoConvert \/ GeoLoads \/ GeoArea

\* ------------------------------------------------------- processing stage
\* process_osm_building: the area pipeline inside try/except Exception; any
\* exception gives None.  building.get("geometry", []) makes a missing
\* geometry the empty list, building.get("tags", {}) a missing tags the
\* empty mapping.
process_osm_building(building) ==
    LET w == convert_osm_to_wkt(building.geometry)
    IN  IF w.exc # "" THEN None
        ELSE LET poly == wkt_loads(Get(w.val))
             IN  IF poly.exc # "" THEN None
                 ELSE Some([osm_id |-> building.id,
                            building_type |->
                                IF IsNone(building.tags) THEN ""
                                ELSE Get(building.tags).building,
                            street |->
                                IF IsNone(building.tags) THEN ""
                                ELSE IF IsNone(Get(building.tags).street) THEN ""
                                ELSE Get(Get(building.tags).street),
                            footprint_wkt |-> Get(w.val),
                            footprint_area |->
                                calculate_polygon_area_in_utm(Get(poly.val))])

\* stats[key] += 1 on the dict of filter_buildings_by_street: a key the
\* dict was not created with is a KeyError.
StatsInc(st, key) ==
    IF key \in DOMAIN st THEN Return([st EXCEPT ![key] = @ + 1])
    ELSE Raise("KeyError")

exclude_types == {"house"}

\* Python's "not street" on tags.get("addr:street"): a missing tag and the
\* empty string are both false.
NoStreet(street) == IsNone(street) \/ Get(street) = ""

\* One iteration of the filtering loop of filter_buildings_by_street
\* (lines 124 to 147) on building b: what it does to stats, seen_streets
\* and filtered, or the exception it raises.
FilterSeeingExcluded(b, st, seen, kept) ==
    IF IsNone(b.tags)
    THEN [exc |-> "KeyError", stats |-> st, seen |-> seen, kept |-> kept]
    ELSE IF Get(b.tags).building \in exclude_types
    THEN [exc |-> "", stats |-> Get(StatsInc(st, "excluded_type").val),
          seen |-> IF NoStreet(Get(b.tags).street) THEN seen
                   ELSE seen \cup {Get(Get(b.tags).street)},
          kept |-> kept]
    ELSE IF NoStreet(Get(b.tags).street)
    THEN [exc |-> "", stats |-> Get(StatsInc(st, "no_street").val),
          seen |-> seen, kept |-> Append(kept, b)]
    ELSE IF Get(Get(b.tags).street) \in seen
    THEN [exc |-> "", stats |-> Get(StatsInc(st, "duplicate_street").val),
          seen |-> seen, kept |-> kept]
    ELSE [exc |-> "", stats |-> st,
          seen |-> seen \cup {Get(Get(b.tags).street)}, kept |-> Append(kept, b)]

FilterOne(b, st, seen, kept) ==
    IF IsNone(b.tags)
    THEN LET r == StatsInc(st, "no_tags")
         IN  [exc |-> r.exc, stats |-> IF r.exc = "" THEN Get(r.val) ELSE st,
              seen |-> seen, kept |-> kept]
    ELSE LET btype == Get(b.tags).building
             street == Get(b.tags).street
         IN  IF btype \in exclude_types
             THEN [exc |-> "", stats |-> Get(StatsInc(st, "excluded_type").val),
                   seen |-> seen, kept |-> kept]
             ELSE IF NoStreet(street)
             THEN [exc |-> "", stats |-> Get(StatsInc(st, "no_street").val),
                   seen |-> seen, kept |-> Append(kept, b)]
             ELSE IF Get(street) \in seen
             THEN [exc |-> "", stats |-> Get(StatsInc(st, "duplicate_street").val),
                   seen |-> seen, kept |-> kept]
             ELSE [exc |-> "", stats |-> st,
                   seen |-> seen \cup {Get(street)}, kept |-> Append(kept, b)]

\* Raw elements: tags missing or present (type, and a street that is
\* missing, empty or named), and a geometry that is missing, too short, or
\* a triangle.
BuildingTypes == {"house", "office"}
Streets == {"High St", "Mill Ln"}
TagSets == {None} \cup
           {Some([building |-> t, street |-> s]) :
               t \in BuildingTypes,
               s \in {None, Some("")} \cup {Some(x) : x \in Streets}}
SampleGeometries ==
    { <<>>,
      <<[lon |-> -1, lat |-> 0], [lon |-> 0, lat |-> 0]>>,
      <<[lon |-> -1, lat |-> 0], [lon |-> 0, lat |-> 0], [lon |-> 0, lat |-> 1]>> }
RawLists ==
    UNION {{[k \in 1..n |-> [id |-> k, tags |-> t[k], geometry |-> g[k]]] :
               t \in [1..n -> TagSets], g \in [1..n -> SampleGeometries]} :
           n \in 0..MaxRaw}

ProcInit ==
    /\ raw_buildings \in RawLists
    /\ p_pc = "filter"
    /\ p_i = 1
    /\ seen_streets = {}
    /\ filtered = <<>>
    /\ stats = [k \in {"total", "no_street", "duplicate_street", "excluded_type"}
                  |-> IF k = "total" THEN Len(raw_buildings) ELSE 0]
    /\ processed_buildings = <<>>
    /\ processed_json = None
    /\ p_exc = ""

\* An iteration of the loop of filter_buildings_by_street; an exception
\* leaves the function and is caught by the except of __main__ (line 212),
\* which ends the script.
P_Filter ==
    /\ p_pc = "filter"
    /\ p_i <= Len(raw_buildings)
    /\ LET r == FilterOne(raw_buildings[p_i], stats, seen_streets, filtered)
       IN  /\ stats' = r.stats
           /\ seen_streets' = r.seen
           /\ filtered' = r.kept
           /\ p_exc' = r.exc
           /\ p_pc' = IF r.exc # "" THEN "aborted" ELSE "filter"
           /\ p_i' = IF r.exc # "" THEN p_i ELSE p_i + 1
    /\ UNCHANGED <<raw_buildings, processed_buildings, processed_json>>
    /\ UNCHANGED <<geoVars, imgVars, fetchVars>>

\* filter_buildings_by_street returns; the processing loop starts.
P_Filtered ==
    /\ p_pc = "filter"
    /\ p_i > Len(raw_buildings)
    /\ p_pc' = "process"
    /\ p_i' = 1
    /\ UNCHANGED <<raw_buildings, seen_streets, filtered, stats,
                   processed_buildings, processed_json, p_exc>>
    /\ UNCHANGED <<geoVars, imgVars, fetchVars>>

\* An iteration of the loop of __main__ (lines 199 to 202).
P_Process ==
    /\ p_pc = "process"
    /\ p_i <= Len(filtered)
    /\ LET r == process_osm_building(filtered[p_i])
       IN  processed_buildings' =
               IF IsNone(r) THEN processed_buildings
               ELSE Append(processed_buildings, Get(r))
    /\ p_i' = p_i + 1
    /\ UNCHANGED <<raw_buildings, p_pc, seen_streets, filtered, stats,
                   processed_json, p_exc>>
    /\ UNCHANGED <<geoVars, imgVars, fetchVars>>

\* json.dump(processed_buildings) to processed.json (lines 207 and 208).
P_Save ==
    /\ p_pc = "process"
    /\ p_i > Len(filtered)
    /\ processed_json' = Some(processed_buildings)
    /\ p_pc' = "done"
    /\ UNCHANGED <<raw_buildings, p_i, seen_streets, filtered, stats,
                   processed_buildings, p_exc>>
    /\ UNCHANGED <<geoVars, imgVars, fetchVars>>

ProcNext == P_Filter \/ P_Filtered \/ P_Process \/ P_Save

\* ------------------------------------------------------------ camera pitch
\* A pitch value as it is written into the image URL: a number of degrees,
\* half the angle whose cosine is dot / sqrt(n0 * n1), or NaN.
Degrees(d) == [kind |-> "degrees", deg |-> d, dot |-> 0, n0 |-> 0, n1 |-> 0]
HalfArccos(d, a, b) == [kind |-> "half_arccos", deg |-> 0, dot |-> d, n0 |-> a, n1 |-> b]
NaN == [kind |-> "nan", deg |-> 0, dot |-> 0, n0 |-> 0, n1 |-> 0]

\* latlong_geocent_transformer.transform(lon, lat, h).  Positions of the
\* imagery stage are metres east and north of a local origin and h is
\* metres up: the geocentric frame differs from this one by a rigid motion,
\* which changes neither dot products nor norms.
geocent_transform(lon, lat, h) == <<lon, lat, h>>

Minus(a, b) == <<a[1] - b[1], a[2] - b[2], a[3] - b[3]>>
Dot(a, b) == a[1] * b[1] + a[2] * b[2] + a[3] * b[3]

\* Lines 146 to 153 of get_streetview_url: floating-point 0.0 / 0.0 is NaN
\* (a warning, no exception), and arccos and degrees keep it.
full_angle_pitch(poly_center, top, origin) ==
    LET vec0 == Minus(poly_center, origin)
        vec1 == Minus(top, origin)
    IN  IF Dot(vec0, vec0) * Dot(vec1, vec1) = 0 THEN NaN
        ELSE [kind |-> "arccos", deg |-> 0, dot |-> Dot(vec0, vec1),
              n0 |-> Dot(vec0, vec0), n1 |-> Dot(vec1, vec1)]

half_angle_pitch(poly_center, top, origin) ==
    LET vec0 == Minus(poly_center, origin)
        vec1 == Minus(top, origin)
    IN  IF Dot(vec0, vec0) * Dot(vec1, vec1) = 0 THEN NaN
        ELSE HalfArccos(Dot(vec0, vec1), Dot(vec0, vec0), Dot(vec1, vec1))

\* Python truth of building_height: None and 0 are false.
Truthy(h) == ~IsNone(h) /\ Get(h) # 0

\* An HTTP request: the service, the location, the pitch and the key the
\* URL carries (the key as formatted from GOOGLE_MAPS_KEY, None included).
NoPitch == Degrees(0)
Req(api, lon, lat, pitch, key) ==
    [api |-> api, lon |-> lon, lat |-> lat, pitch |-> pitch, key |-> key]

\* What the metadata service answers: a failed request, a status other than
\* 200, a status field other than "OK", or a camera d metres east of the
\* requested point.
MetaResponses ==
    {[t |-> x, d |-> 0] : x \in {"error", "http", "not_ok"}}
        \cup {[t |-> "ok", d |-> d] : d \in 0..MaxCamOffset}

\* What the image service answers: a failed request, an error status, or a
\* payload of some size.
Sizes == {BlankImageSize - 1, BlankImageSize}
ImgResponses ==
    {[t |-> x, size |-> 0] : x \in {"error", "http"}}
        \cup {[t |-> "ok", size |-> z] : z \in Sizes}

\* utils.get_streetview_camera_position: requests.get is not guarded.
get_streetview_camera_position(longitude, latitude, meta) ==
    [exc |-> IF meta.t = "error" THEN "ConnectionError" ELSE "",
     val |-> IF meta.t = "ok" THEN Some(<<longitude + meta.d, latitude>>) ELSE None,
     reqs |-> {Req("streetview/metadata", longitude, latitude, NoPitch,
                   GOOGLE_MAPS_KEY)}]

\* utils.get_streetview_url: the URL, the metadata request it sent if any,
\* the outcome of the lookup, whether the vectors were computed, and the
\* camera position the lookup gave.
PlainUrl(longitude, latitude, pitch) ==
    Some(Req("streetview", longitude, latitude, Degrees(pitch), GOOGLE_MAPS_KEY))

\* Lines 144 to 153, with streetview_coords the outcome cam of the lookup.
UrlWithCamera(longitude, latitude, height, pitch, cam) ==
    IF cam.exc # ""
    THEN [exc |-> cam.exc, url |-> None, reqs |-> cam.reqs,
          lookup |-> "error", computed |-> FALSE, cam |-> None]
    ELSE IF cam.val # None
    THEN [exc |-> "",
          url |-> Some(Req("streetview", longitude, latitude,
                           half_angle_pitch(
                               geocent_transform(longitude, latitude, 0),
                               geocent_transform(longitude, latitude, height),
                               geocent_transform(Get(cam.val)[1], Get(cam.val)[2], 0)),
                           GOOGLE_MAPS_KEY)),
          reqs |-> cam.reqs, lookup |-> "found", computed |-> TRUE,
          cam |-> cam.val]
    ELSE [exc |-> "", url |-> PlainUrl(longitude, latitude, pitch),
          reqs |-> cam.reqs, lookup |-> "none", computed |-> FALSE,
          cam |-> None]

UrlIgnoringHeightCheck(longitude, latitude, building_height, use_building_height, pitch, meta) ==
    IF use_building_height
    THEN UrlWithCamera(longitude, latitude,
                       IF IsNone(building_height) THEN 0 ELSE Get(building_height),
                       pitch,
                       get_streetview_camera_position(longitude, latitude, meta))
    ELSE [exc |-> "", url |-> PlainUrl(longitude, latitude, pitch),
          reqs |-> {}, lookup |-> "not_made", computed |-> FALSE,
          cam |-> None]

get_streetview_url(longitude, latitude, building_height, use_building_height, pitch, meta) ==
    IF use_building_height /\ Truthy(building_height)
    THEN UrlWithCamera(longitude, latitude, Get(building_height), pitch,
                       get_streetview_camera_position(longitude, latitude, meta))
    ELSE [exc |-> "", url |-> PlainUrl(longitude, latitude, pitch),
          reqs |-> {}, lookup |-> "not_made", computed |-> FALSE,
          cam |-> None]

\* utils.download_streetview_image.  get_streetview_url is called before the
\* try, so its exception leaves the function; inside the try a failed
\* request, an error status (raise_for_status) and a payload under
\* BlankImageSize bytes give False, and only then the file is written.
\* write is the (path, size) written, payload the size received.
NoDownload ==
    [exc |-> "", ret |-> FALSE, reqs |-> {}, write |-> None, url |-> None,
     lookup |-> "not_made", computed |-> FALSE, payload |-> None,
     cam |-> None]

UrlOutcome(u) ==
    [NoDownload EXCEPT !.exc = u.exc, !.reqs = u.reqs, !.lookup = u.lookup,
                       !.computed = u.computed, !.url = u.url,
                       !.cam = u.cam]

\* Lines 192 to 211, with u the outcome of get_streetview_url.
WriteBeforeSizeCheck(output_path, img, u) ==
    IF u.exc # "" THEN UrlOutcome(u)
    ELSE IF img.t \in {"error", "http"}
    THEN [UrlOutcome(u) EXCEPT !.reqs = u.reqs \cup {Get(u.url)}]
    ELSE IF img.size < BlankImageSize
    THEN [UrlOutcome(u) EXCEPT !.reqs = u.reqs \cup {Get(u.url)},
                               !.payload = Some(img.size),
                               !.write = Some(<<output_path, img.size>>)]
    ELSE [UrlOutcome(u) EXCEPT !.reqs = u.reqs \cup {Get(u.url)},
                               !.payload = Some(img.size), !.ret = TRUE,
                               !.write = Some(<<output_path, img.size>>)]

FetchImage(output_path, img, u) ==
    IF u.exc # "" THEN UrlOutcome(u)
    ELSE IF img.t \in {"error", "http"}
    THEN [UrlOutcome(u) EXCEPT !.reqs = u.reqs \cup {Get(u.url)}]
    ELSE IF img.size < BlankImageSize
    THEN [UrlOutcome(u) EXCEPT !.reqs = u.reqs \cup {Get(u.url)},
                               !.payload = Some(img.size)]
    ELSE [UrlOutcome(u) EXCEPT !.reqs = u.reqs \cup {Get(u.url)},
                               !.payload = Some(img.size), !.ret = TRUE,
                               !.write = Some(<<output_path, img.size>>)]

download_streetview_image(longitude, latitude, output_path, building_height, use_building_height, pitch, meta, img) ==
    FetchImage(output_path, img,
               get_streetview_url(longitude, latitude, building_height,
                                  use_building_height, pitch, meta))

\* ----------------------------------------------------------- imagery stage
Variants == {"fixed_pitch", "height_pitch"}
OsmId(k) == 100 + k
OsmIds == {OsmId(k) : k \in 1..MaxBuildings}
ImagePath(variant, osm_id) == <<variant, osm_id>>
AerialPath == <<"aerial", 0>>
Paths == (Variants \X OsmIds) \cup {AerialPath}

Heights == {None} \cup {Some(h) : h \in 0..MaxHeight}
BuildingLists ==
    {[k \in 1..MaxBuildings |->
        [osm_id |-> OsmId(k), longitude |-> 10 * k, latitude |-> 0,
         building_height |-> hs[k]]] : hs \in [1..MaxBuildings -> Heights]}

Keys == {None, Some("KEY")}
PitchArgs == {DEFAULT_PITCH_ANGLE, 45}
LimitArgs == {None, Some(1)}

\* One pitch option of download_building_images (lines 66 to 84, or 87 to
\* 102): not requested, the file exists (skip), or a download dl.
PathEvenIfFailed(path, dl) ==
    IF dl.exc # "" THEN [outcome |-> "raised", image |-> None, dl |-> dl]
    ELSE IF dl.ret THEN [outcome |-> "downloaded", image |-> Some(path), dl |-> dl]
    ELSE [outcome |-> "failed", image |-> Some(path), dl |-> dl]

DownloadOutcome(path, dl) ==
    IF dl.exc # "" THEN [outcome |-> "raised", image |-> None, dl |-> dl]
    ELSE IF dl.ret THEN [outcome |-> "downloaded", image |-> Some(path), dl |-> dl]
    ELSE [outcome |-> "failed", image |-> None, dl |-> dl]

FetchAlways(requested, variant, building, use_building_height, pitch, meta, img) ==
    IF ~requested
    THEN [outcome |-> "not_requested", image |-> None, dl |-> NoDownload]
    ELSE DownloadOutcome(
             ImagePath(variant, building.osm_id),
             download_streetview_image(
                 building.longitude, building.latitude,
                 ImagePath(variant, building.osm_id),
                 building.building_height, use_building_height, pitch, meta, img))

fetch_variant(requested, variant, building, use_building_height, pitch, meta, img) ==
    IF ~requested
    THEN [outcome |-> "not_requested", image |-> None, dl |-> NoDownload]
    ELSE IF files[ImagePath(variant, building.osm_id)] # None
    THEN [outcome |-> "skipped",
          image |-> Some(ImagePath(variant, building.osm_id)), dl |-> NoDownload]
    ELSE DownloadOutcome(
             ImagePath(variant, building.osm_id),
             download_streetview_image(
                 building.longitude, building.latitude,
                 ImagePath(variant, building.osm_id),
                 building.building_height, use_building_height, pitch, meta, img))

NotReached == [outcome |-> "not_reached", image |-> None, dl |-> NoDownload]
NoLast == [osm_id |-> 0, fixed |-> NotReached, height |-> NotReached]

EmptyDict == [x \in {} |-> x]
DictPut(d, k, v) == [x \in (DOMAIN d) \cup {k} |-> IF x = k THEN v ELSE d[x]]

\* buildings[: args.limit] if args.limit else buildings
buildings_to_process ==
    IF Truthy(args.limit)
    THEN SubSeq(buildings, 1, IF Get(args.limit) < Len(buildings)
                              THEN Get(args.limit) ELSE Len(buildings))
    ELSE buildings

WriteFile(fs, w, r) ==
    IF IsNone(w) THEN fs
    ELSE [fs EXCEPT ![Get(w)[1]] = Some([size |-> Get(w)[2], run |-> r])]

ImgInit ==
    /\ GOOGLE_MAPS_KEY \in Keys
    /\ GOOGLE_MAPS_API_KEY \in Keys
    /\ buildings \in BuildingLists
    /\ args = [fixed_pitch |-> FALSE, height_pitch |-> FALSE,
               pitch |-> DEFAULT_PITCH_ANGLE, limit |-> None]
    /\ s_pc = "idle"
    /\ s_i = 1
    /\ existing_buildings = EmptyDict
    /\ skipped_downloads = 0
    /\ files = [q \in Paths |-> None]
    /\ output_file = None
    /\ requests = {}
    /\ last = NoLast
    /\ run = 0
    /\ skipped_existing = 0

\* A run of fetch_streetview_images.py starts (lines 139 to 185): the
\* arguments are parsed and defaulted, the previous output file is loaded.
StartRun ==
    /\ s_pc \in {"idle", "done", "aborted"}
    /\ run < MaxRuns
    /\ \E fp \in BOOLEAN, hp \in BOOLEAN, pitch \in PitchArgs, limit \in LimitArgs :
          args' = [fixed_pitch |-> (fp \/ (~fp /\ ~hp)), height_pitch |-> hp,
                   pitch |-> pitch, limit |-> limit]
    /\ existing_buildings' = IF IsNone(output_file) THEN EmptyDict
                             ELSE Get(output_file)
    /\ skipped_downloads' = 0
    /\ s_i' = 1
    /\ s_pc' = "loop"
    /\ requests' = {}
    /\ last' = NoLast
    /\ run' = run + 1
    /\ skipped_existing' = 0
    /\ UNCHANGED <<GOOGLE_MAPS_KEY, GOOGLE_MAPS_API_KEY, buildings, files,
                   output_file>>
    /\ UNCHANGED <<geoVars, procVars, fetchVars>>

\* download_building_images: the fixed-pitch option, then the height-based
\* one (not reached when an exception left the first).
HeightAfterFixed(building, meta, imgH, fx) ==
    [osm_id |-> building.osm_id,
     fixed |-> fx,
     height |-> IF fx.outcome = "raised" THEN NotReached
                ELSE fetch_variant(args.height_pitch, "height_pitch", building,
                                   TRUE, DEFAULT_PITCH_ANGLE, meta, imgH)]

download_building_images(building, meta, imgF, imgH) ==
    HeightAfterFixed(building, meta, imgH,
                     fetch_variant(args.fixed_pitch, "fixed_pitch", building,
                                   FALSE, args.pitch, meta, imgF))

Raised(r) == r.fixed.outcome = "raised" \/ r.height.outcome = "raised"
HasImage(r) == r.fixed.image # None \/ r.height.image # None

\* The effect of one iteration of the batch loop, r being what
\* download_building_images did: the keep-or-count decision of lines 195
\* to 203, or the exception leaving the loop.
KeepAlways(r) ==
    /\ files' = WriteFile(WriteFile(files, r.fixed.dl.write, run),
                          r.height.dl.write, run)
    /\ requests' = requests \cup r.fixed.dl.reqs \cup r.height.dl.reqs
    /\ last' = r
    /\ s_pc' = IF Raised(r) THEN "aborted" ELSE "loop"
    /\ s_i' = IF Raised(r) THEN s_i ELSE s_i + 1
    /\ existing_buildings' =
          IF ~Raised(r)
          THEN DictPut(existing_buildings, r.osm_id,
                       [osm_id |-> r.osm_id,
                        fixed_pitch_image |-> r.fixed.image,
                        height_pitch_image |-> r.height.image])
          ELSE existing_buildings
    /\ skipped_downloads' =
          IF ~Raised(r) /\ ~HasImage(r) THEN skipped_downloads + 1
          ELSE skipped_downloads
    /\ skipped_existing' =
          skipped_existing + (IF r.fixed.outcome = "skipped" THEN 1 ELSE 0)
                           + (IF r.height.outcome = "skipped" THEN 1 ELSE 0)

LoopBody(r) ==
    /\ files' = WriteFile(WriteFile(files, r.fixed.dl.write, run),
                          r.height.dl.write, run)
    /\ requests' = requests \cup r.fixed.dl.reqs \cup r.height.dl.reqs
    /\ last' = r
    /\ s_pc' = IF Raised(r) THEN "aborted" ELSE "loop"
    /\ s_i' = IF Raised(r) THEN s_i ELSE s_i + 1
    /\ existing_buildings' =
          IF ~Raised(r) /\ HasImage(r)
          THEN DictPut(existing_buildings, r.osm_id,
                       [osm_id |-> r.osm_id,
                        fixed_pitch_image |-> r.fixed.image,
                        height_pitch_image |-> r.height.image])
          ELSE existing_buildings
    /\ skipped_downloads' =
          IF ~Raised(r) /\ ~HasImage(r) THEN skipped_downloads + 1
          ELSE skipped_downloads
    /\ skipped_existing' =
          skipped_existing + (IF r.fixed.outcome = "skipped" THEN 1 ELSE 0)
                           + (IF r.height.outcome = "skipped" THEN 1 ELSE 0)

\* One iteration of the batch loop (lines 186 to 204): the whole of
\* download_building_images for the building, then the keep-or-count
\* decision.  An exception leaving download_streetview_image leaves the
\* loop and is caught by the except of __main__ (line 231): nothing more is
\* processed and the output file is not written.
RunBuilding ==
    /\ s_pc = "loop"
    /\ s_i <= Len(buildings_to_process)
    /\ \E meta \in MetaResponses, imgF \in ImgResponses, imgH \in ImgResponses :
          LoopBody(download_building_images(buildings_to_process[s_i],
                                            meta, imgF, imgH))
    /\ UNCHANGED <<GOOGLE_MAPS_KEY, GOOGLE_MAPS_API_KEY, buildings, args,
                   output_file, run>>
    /\ UNCHANGED <<geoVars, procVars, fetchVars>>

\* After the loop (lines 206 to 214): the output file is written.
RunSave ==
    /\ s_pc = "loop"
    /\ s_i > Len(buildings_to_process)
    /\ output_file' = Some(existing_buildings)
    /\ s_pc' = "done"
    /\ UNCHANGED <<GOOGLE_MAPS_KEY, GOOGLE_MAPS_API_KEY, buildings, args, s_i,
                   existing_buildings, skipped_downloads, files, requests,
                   last, run, skipped_existing>>
    /\ UNCHANGED <<geoVars, procVars, fetchVars>>

\* aerial.fetch_google_aerial: the key is the argument or the environment's
\* GOOGLE_MAPS_API_KEY; without one, ValueError before any request.  A
\* status other than 200 or a text content type is a RuntimeError.
AerialResponses == {"image", "bad_status", "text"}

AerialRequest(lat, lon, key, resp) ==
    IF IsNone(key)
    THEN [exc |-> "ValueError", reqs |-> {}, write |-> None]
    ELSE IF resp # "image"
    THEN [exc |-> "RuntimeError",
          reqs |-> {Req("staticmap", lon, lat, NoPitch, key)}, write |-> None]
    ELSE [exc |-> "", reqs |-> {Req("staticmap", lon, lat, NoPitch, key)},
          write |-> Some(<<AerialPath, BlankImageSize>>)]

fetch_google_aerial(lat, lon, api_key, resp) ==
    AerialRequest(lat, lon,
                  IF ~IsNone(api_key) THEN api_key ELSE GOOGLE_MAPS_API_KEY, resp)

AerialEffect(r) ==
    /\ requests' = r.reqs
    /\ files' = WriteFile(files, r.write, run)
    /\ s_pc' = IF r.exc = "ValueError" THEN "aerial_missing_key"
               ELSE IF r.exc # "" THEN "aerial_failed"
               ELSE "aerial_saved"

\* aerial.py run as a script (lines 90 to 98), instead of the imagery stage.
FetchAerial ==
    /\ s_pc = "idle"
    /\ run = 0
    /\ \E api_key \in {None, Some("ARGKEY")}, resp \in AerialResponses :
          AerialEffect(fetch_google_aerial(40, -74, api_key, resp))
    /\ UNCHANGED <<GOOGLE_MAPS_KEY, GOOGLE_MAPS_API_KEY, buildings, args, s_i,
                   existing_buildings, skipped_downloads, output_file, last,
                   run, skipped_existing>>
    /\ UNCHANGED <<geoVars, procVars, fetchVars>>

Next == StartRun \/ RunBuilding \/ RunSave \/ FetchAerial

\* -------------------------------------------------------------- fetch stage
\* fetch_osm_data.create_overpass_query: the limit is written into the
\* query only when num_buildings is truthy (None and 0 give no limit).
create_overpass_query(n) == [limit |-> IF Truthy(n) THEN n ELSE None]

\* What the Overpass service answers: a failed request, an error status, a
\* body that is not JSON, or at most the query's limit of elements.
Elements(n) == [k \in 1..n |-> OsmId(k)]
OverpassResponses(q) ==
    {[t |-> x, elements |-> <<>>] : x \in {"error", "http", "not_json"}}
        \cup {[t |-> "ok", elements |-> Elements(n)] :
                 n \in 0..(IF ~IsNone(q.limit) /\ Get(q.limit) < MaxElements
                           THEN Get(q.limit) ELSE MaxElements)}

\* fetch_osm_data.fetch_osm_data: requests.post raises on a failed request,
\* raise_for_status on an error status, response.json on a bad body.
FetchIgnoringStatus(q, resp) ==
    IF resp.t = "error" THEN Raise("ConnectionError")
    ELSE IF resp.t = "not_json" THEN Raise("JSONDecodeError")
    ELSE Return([elements |-> resp.elements])

fetch_osm_data(q, resp) ==
    IF resp.t = "error" THEN Raise("ConnectionError")
    ELSE IF resp.t = "http" THEN Raise("HTTPError")
    ELSE IF resp.t = "not_json" THEN Raise("JSONDecodeError")
    ELSE Return([elements |-> resp.elements])

NumArgs == {None} \cup {Some(n) : n \in 0..MaxElements}
RawFiles == {None, Some([elements |-> Elements(1)])}

FetchInit ==
    /\ num_buildings = None
    /\ f_pc = "idle"
    /\ query = None
    /\ osm_data = None
    /\ raw_json \in RawFiles
    /\ f_exc = ""
    /\ f_response = None
    /\ save_calls = 0
    /\ raw_json_before = raw_json
    /\ f_run = 0

\* A run of fetch_osm_data.py starts (lines 116 to 121).
F_Start ==
    /\ f_pc \in {"idle", "done", "aborted"}
    /\ f_run < MaxFetchRuns
    /\ num_buildings' \in NumArgs
    /\ f_pc' = "query"
    /\ query' = None
    /\ osm_data' = None
    /\ f_exc' = ""
    /\ f_response' = None
    /\ save_calls' = 0
    /\ raw_json_before' = raw_json
    /\ f_run' = f_run + 1
    /\ UNCHANGED raw_json
    /\ UNCHANGED <<geoVars, procVars, imgVars>>

\* Lines 124 to 129.
F_Query ==
    /\ f_pc = "query"
    /\ query' = Some(IF ~IsNone(num_buildings)
                     THEN create_overpass_query(num_buildings)
                     ELSE create_overpass_query(None))
    /\ f_pc' = "fetch"
    /\ UNCHANGED <<num_buildings, osm_data, raw_json, f_exc, f_response,
                   save_calls, raw_json_before, f_run>>
    /\ UNCHANGED <<geoVars, procVars, imgVars>>

\* The outcome r of fetch_osm_data at line 132: an exception is caught by
\* the except clauses of __main__ (lines 140 to 143), which end the script.
FetchEffect(r) ==
    /\ osm_data' = r.val
    /\ f_exc' = r.exc
    /\ f_pc' = IF r.exc = "" THEN "save" ELSE "aborted"

F_Fetch ==
    /\ f_pc = "fetch"
    /\ \E resp \in OverpassResponses(Get(query)) :
          /\ f_response' = Some(resp.t)
          /\ FetchEffect(fetch_osm_data(Get(query), resp))
    /\ UNCHANGED <<num_buildings, query, raw_json, save_calls,
                   raw_json_before, f_run>>
    /\ UNCHANGED <<geoVars, procVars, imgVars>>

\* save_osm_data (line 136): raw.json is written with the data.
F_Save ==
    /\ f_pc = "save"
    /\ raw_json' = osm_data
    /\ save_calls' = save_calls + 1
    /\ f_pc' = "done"
    /\ UNCHANGED <<num_buildings, query, osm_data, f_exc, f_response,
                   raw_json_before, f_run>>
    /\ UNCHANGED <<geoVars, procVars, imgVars>>

FetchNext == F_Start \/ F_Query \/ F_Fetch \/ F_Save

FetchIdle ==
    /\ num_buildings = None /\ f_pc = "off" /\ query = None
    /\ osm_data = None /\ raw_json = None /\ f_exc = ""
    /\ f_response = None /\ save_calls = 0 /\ raw_json_before = None
    /\ f_run = 0

ImgIdle ==
    /\ GOOGLE_MAPS_KEY = None /\ GOOGLE_MAPS_API_KEY = None
    /\ buildings = <<>>
    /\ args = [fixed_pitch |-> FALSE, height_pitch |-> FALSE,
               pitch |-> DEFAULT_PITCH_ANGLE, limit |-> None]
    /\ s_pc = "off" /\ s_i = 1
    /\ existing_buildings = EmptyDict /\ skipped_downloads = 0
    /\ files = [q \in Paths |-> None] /\ output_file = None
    /\ requests = {} /\ last = NoLast /\ run = 0 /\ skipped_existing = 0

\* ---------------------------------------------------------- specifications
GeoIdle ==
    /\ g_entry = "osm" /\ geometry = <<>> /\ g_pc = "idle"
    /\ footprint_wkt = None /\ footprint_polygon = None
    /\ footprint_area = None /\ g_exc = ""

ProcIdle ==
    /\ raw_buildings = <<>> /\ p_pc = "idle" /\ p_i = 1
    /\ seen_streets = {} /\ filtered = <<>> /\ stats = <<>>
    /\ processed_buildings = <<>> /\ processed_json = None /\ p_exc = ""

AreaInit == GeoInit /\ ProcIdle /\ ImgIdle /\ FetchIdle

SpecArea == AreaInit /\ [][GeoNext]_vars

ProcessInit == ProcInit /\ GeoIdle /\ ImgIdle /\ FetchIdle

Init == ImgInit /\ GeoIdle /\ ProcIdle /\ FetchIdle

Spec == Init /\ [][Next]_vars

SpecProcess == ProcessInit /\ [][ProcNext]_vars

FetchStageInit == FetchInit /\ GeoIdle /\ ProcIdle /\ ImgIdle

SpecFetch == FetchStageInit /\ [][FetchNext]_vars

\* ------------------------------------------------- claims on the area engine
GeoEnded == g_pc \in {"returned", "raised"}
PairsOf(g) == [k \in 1..Len(g) |-> <<g[k].lon, g[k].lat>>]
NodesOf(c) == [k \in 1..Len(c) |-> [lon |-> c[k][1], lat |-> c[k][2]]]
IsOpen(g) == Len(g) > 0 /\ g[1] # g[Len(g)]

\* The ring a WKT text denotes, read back as numbers.
RingOfWkt(wkt) ==
    [k \in 1..Len(wkt.ring) |->
        <<ParseNumber(wkt.ring[k][1]), ParseNumber(wkt.ring[k][2])>>]

\* The outcome of the whole area pipeline on an OSM ring.
AreaOfGeometry(g) ==
    LET w == convert_osm_to_wkt(g)
    IN  IF w.exc # "" THEN Raise(w.exc)
        ELSE LET p == wkt_loads(Get(w.val))
             IN  IF p.exc # "" THEN Raise(p.exc)
                 ELSE Return(calculate_polygon_area_in_utm(Get(p.val)))

RECURSIVE SumRingAreas(_)
SumRingAreas(rings) ==
    IF Len(rings) = 0 THEN 0
    ELSE SumRingAreas(Tail(rings)) + calculate_ring_area_in_utm(Head(rings))

\* C3: a ring of 0, 1 or 2 input vertices always ends in the geometry
\* library's invalid-geometry error: no area is returned for it and it does
\* not end in an IndexError.
C3_ShortRingIsInvalidGeometry ==
    (g_entry = "osm" /\ Len(geometry) < 3 /\ GeoEnded)
        => (g_pc = "raised" /\ g_exc = "GEOSException")

\* C7: the returned polygon area is the exterior ring's area minus the sum
\* of the areas of the interior rings, for any number of holes.
C7_AreaIsExteriorMinusHoles ==
    g_pc = "returned" =>
        LET p == Get(footprint_polygon)
        IN  Get(footprint_area) =
                calculate_ring_area_in_utm(p.exterior) - SumRingAreas(p.interiors)

C7_Witness ==
    /\ g_pc = "returned"
    /\ Len(Get(footprint_polygon).interiors) = 2
    /\ Get(footprint_polygon).interiors[1] # Get(footprint_polygon).interiors[2]
    /\ calculate_ring_area_in_utm(Get(footprint_polygon).interiors[2]) > 0
    /\ Get(footprint_area) > 0

\* C8: closing is an idempotent normalisation: the first vertex is appended
\* exactly when first and last differ; converting the closed ring again
\* gives the same text; and an open ring gives the same vertex sequence
\* and the same area as the same ring supplied closed.
C8_ClosingIsIdempotent ==
    (g_entry = "osm" /\ footprint_wkt # None) =>
        LET out == RingOfWkt(Get(footprint_wkt))
            inp == PairsOf(geometry)
        IN  /\ out = (IF IsOpen(geometry) THEN Append(inp, inp[1]) ELSE inp)
            /\ convert_osm_to_wkt(NodesOf(out)) = Return(Get(footprint_wkt))
            /\ IsOpen(geometry) =>
                  /\ convert_osm_to_wkt(Append(geometry, geometry[1]))
                        = Return(Get(footprint_wkt))
                  /\ GeoEnded =>
                        AreaOfGeometry(Append(geometry, geometry[1]))
                          = [exc |-> g_exc, val |-> footprint_area]

C8_Witness ==
    /\ g_entry = "osm"
    /\ g_pc = "returned"
    /\ IsOpen(geometry)
    /\ Len(geometry) = 3
    /\ Get(footprint_area) > 0

\* The closed ring started r vertices later, and the ring walked backwards.
RotateRing(ring, r) ==
    LET n == Len(ring) - 1
    IN  [k \in 1..(n + 1) |-> ring[((k - 1 + r) % n) + 1]]
ReverseRing(ring) == [k \in 1..Len(ring) |-> ring[Len(ring) + 1 - k]]

RingsOf(polygon) ==
    {polygon.exterior} \cup {polygon.interiors[k] : k \in 1..Len(polygon.interiors)}

\* C13: the area computed for a ring does not depend on the vertex the
\* ring starts at nor on the direction it is walked in: every rotation of
\* the ring, and the reverse of every rotation, has the area of the ring;
\* for a footprint without holes that is the area returned.
C13_AreaIgnoresStartAndDirection ==
    g_pc = "returned" =>
        /\ \A ring \in RingsOf(Get(footprint_polygon)) :
              \A r \in 0..(Len(ring) - 2) :
                  /\ calculate_ring_area_in_utm(RotateRing(ring, r))
                        = calculate_ring_area_in_utm(ring)
                  /\ calculate_ring_area_in_utm(ReverseRing(RotateRing(ring, r)))
                        = calculate_ring_area_in_utm(ring)
        /\ g_entry = "osm" =>
              \A r \in 0..(Len(Get(footprint_polygon).exterior) - 2) :
                  /\ calculate_ring_area_in_utm(
                         RotateRing(Get(footprint_polygon).exterior, r))
                        = Get(footprint_area)
                  /\ calculate_ring_area_in_utm(
                         ReverseRing(RotateRing(Get(footprint_polygon).exterior, r)))
                        = Get(footprint_area)

C13_Witness ==
    /\ g_pc = "returned"
    /\ g_entry = "osm"
    /\ Len(geometry) = 4
    /\ Cardinality({geometry[k] : k \in 1..4}) = 4
    /\ Get(footprint_area) > 0
    /\ ZoneNumber(geometry[1].lon) # ZoneNumber(geometry[2].lon)
    /\ RotateRing(Get(footprint_polygon).exterior, 1)
          # Get(footprint_polygon).exterior
    /\ calculate_ring_area_in_utm(
           ReverseRing(RotateRing(Get(footprint_polygon).exterior, 1)))
          = Get(footprint_area)

\* ------------------------------------------ claims on the processing stage
ProcEnded == p_pc \in {"done", "aborted"}

HasTags(b) == ~IsNone(b.tags)
Eligible(b) == HasTags(b) /\ Get(b.tags).building \notin exclude_types
StreetOf(b) == Get(b.tags).street

\* The buildings the filter is meant to keep: eligible, and without a
\* street or the first eligible building of its street.
KeptByFilter(k) ==
    /\ Eligible(raw_buildings[k])
    /\ \/ NoStreet(StreetOf(raw_buildings[k]))
       \/ \A j \in 1..(k - 1) :
             ~(Eligible(raw_buildings[j])
               /\ StreetOf(raw_buildings[j]) = StreetOf(raw_buildings[k]))

GoodGeometry(g) == AreaOfGeometry(g).exc = ""

\* C2: whatever the raw list, a building that fails (no tags, no or invalid
\* geometry) is dropped alone: the run ends with processed.json written and
\* holding exactly the kept buildings whose geometry is valid.
C2_FailingBuildingAloneDropped ==
    ProcEnded =>
        /\ p_pc = "done"
        /\ processed_json # None
        /\ {Get(processed_json)[k].osm_id : k \in 1..Len(Get(processed_json))}
             = {k \in 1..Len(raw_buildings) :
                   KeptByFilter(k) /\ GoodGeometry(raw_buildings[k].geometry)}

\* What the filter is meant to return for the first k raw buildings: the
\* kept ones, in input order.
RECURSIVE KeptUpTo(_)
KeptUpTo(k) ==
    IF k = 0 THEN <<>>
    ELSE IF KeptByFilter(k) THEN Append(KeptUpTo(k - 1), raw_buildings[k])
    ELSE KeptUpTo(k - 1)

\* C12: when filter_buildings_by_street returns, its result is, in input
\* order, exactly the buildings of a non-excluded type that have no street
\* address or are the first of a non-excluded type with their street; no
\* two buildings of the result share a street address and none is of an
\* excluded type.
C12_FilterKeepsFirstPerStreet ==
    p_pc \in {"process", "done"} =>
        /\ filtered = KeptUpTo(Len(raw_buildings))
        /\ \A i, j \in 1..Len(filtered) :
              (i # j /\ ~NoStreet(StreetOf(filtered[i])))
                  => StreetOf(filtered[i]) # StreetOf(filtered[j])
        /\ \A i \in 1..Len(filtered) :
              Get(filtered[i].tags).building \notin exclude_types

C12_Witness ==
    /\ p_pc = "done"
    /\ Len(raw_buildings) = 2
    /\ HasTags(raw_buildings[1])
    /\ Get(raw_buildings[1].tags).building \in exclude_types
    /\ ~NoStreet(StreetOf(raw_buildings[1]))
    /\ StreetOf(raw_buildings[2]) = StreetOf(raw_buildings[1])
    /\ filtered = <<raw_buildings[2]>>

\* ---------------------------------------------- claims on the imagery stage
RunEnded == s_pc \in {"done", "aborted"}
Called(x) == x.outcome \in {"downloaded", "failed", "raised"}
HeightOf(osm_id) ==
    buildings[CHOOSE k \in 1..Len(buildings) : buildings[k].osm_id = osm_id].building_height
LastOf(variant) == IF variant = "fixed_pitch" THEN last.fixed ELSE last.height
SuppliedPitch(variant) ==
    IF variant = "fixed_pitch" THEN args.pitch ELSE DEFAULT_PITCH_ANGLE
Requested(variant) ==
    IF variant = "fixed_pitch" THEN args.fixed_pitch ELSE args.height_pitch
RecordedImage(rec, variant) ==
    IF variant = "fixed_pitch" THEN rec.fixed_pitch_image ELSE rec.height_pitch_image

\* C1: a failed network call for a building (metadata lookup or image
\* fetch) makes download_streetview_image return False, it does not raise;
\* so a run never stops early: it ends with every building of the list
\* handled and the output file written.
C1_NetworkFailureDoesNotStopRun ==
    /\ \A v \in Variants :
          LastOf(v).dl.lookup = "error" => LastOf(v).outcome = "failed"
    /\ RunEnded =>
          /\ s_pc = "done"
          /\ s_i > Len(buildings_to_process)
          /\ output_file = Some(existing_buildings)

\* C4: when observer and target coincide and the height is not zero, the
\* pitch solver ends in an error: no URL and no request ever carries a NaN
\* pitch.
C4_DegeneratePitchIsAnError ==
    /\ \A q \in requests : q.pitch.kind # "nan"
    /\ \A v \in Variants :
          LastOf(v).dl.url # None => Get(LastOf(v).dl.url).pitch.kind # "nan"

BuildingOf(osm_id) ==
    buildings[CHOOSE k \in 1..Len(buildings) : buildings[k].osm_id = osm_id]

\* C14: when the lookup gave an observer position and the height is not
\* zero, the pitch of the image URL is half of the angle, in degrees,
\* whose cosine is the dot product of vec_ground = target_ground - observer
\* and vec_top = target_top - observer divided by the product of their
\* norms (observer and target apart, so that the angle exists); an observer
\* whose horizontal distance equals the height gives half of 45 degrees
\* (cosine squared is 1/2, cosine positive).
C14_PitchIsHalfTheSubtendedAngle ==
    \A v \in Variants :
        LET x == LastOf(v)
        IN  (Called(x) /\ x.dl.lookup = "found") =>
              LET b == BuildingOf(last.osm_id)
                  h == Get(b.building_height)
                  observer == <<Get(x.dl.cam)[1], Get(x.dl.cam)[2], 0>>
                  vec_ground == Minus(<<b.longitude, b.latitude, 0>>, observer)
                  vec_top == Minus(<<b.longitude, b.latitude, h>>, observer)
                  p == Get(x.dl.url).pitch
              IN  /\ h # 0
                  /\ Dot(vec_ground, vec_ground) # 0 =>
                        /\ p.kind = "half_arccos"
                        /\ p.dot = Dot(vec_ground, vec_top)
                        /\ p.n0 = Dot(vec_ground, vec_ground)
                        /\ p.n1 = Dot(vec_top, vec_top)
                        /\ Dot(vec_ground, vec_ground) = h * h =>
                              (p.dot > 0 /\ 2 * p.dot * p.dot = p.n0 * p.n1)

C14_Witness ==
    /\ last.height.outcome = "downloaded"
    /\ last.height.dl.lookup = "found"
    /\ BuildingOf(last.osm_id).building_height = Some(1)
    /\ Get(last.height.dl.cam)[1] = BuildingOf(last.osm_id).longitude + 1
    /\ Get(last.height.dl.url).pitch = HalfArccos(1, 1, 2)
    /\ Get(last.height.dl.url) \in requests

\* C15: the count reported when the imagery run ends as "Skipped downloads
\* due to existing images" is the number of downloads of this run that
\* were skipped because the image file existed.
C15_SkippedCountIsExistingImages ==
    s_pc = "done" => skipped_downloads = skipped_existing

HasPath(rec) == rec.fixed_pitch_image # None \/ rec.height_pitch_image # None

\* C16: only buildings with at least one image are kept: after every step
\* each record of the loop's dictionary and of the written output file has
\* a non-null fixed_pitch_image or a non-null height_pitch_image, and an
\* iteration of the batch loop whose building obtained no image neither
\* adds nor updates a record.
C16_OnlyBuildingsWithImageKept ==
    [][ /\ \A id \in DOMAIN existing_buildings' :
              HasPath(existing_buildings'[id])
        /\ output_file' # None =>
              \A id \in DOMAIN Get(output_file') : HasPath(Get(output_file')[id])
        /\ (s_pc = "loop" /\ s_i <= Len(buildings_to_process)
              /\ ~HasImage(last'))
             => existing_buildings' = existing_buildings
      ]_vars

C16_Witness ==
    /\ run = 2
    /\ s_pc = "done"
    /\ Called(last.height)
    /\ ~Raised(last)
    /\ ~HasImage(last)
    /\ last.osm_id \in DOMAIN Get(output_file)
    /\ Get(output_file)[last.osm_id].fixed_pitch_image # None

\* C17: across successive runs, with no image file deleted, a record of the
\* output file never loses an image path: whenever the output file is
\* rewritten, every record that had a non-null path for a variant is still
\* there with a non-null path for that variant.
C17_RecordNeverLosesImagePath ==
    [][ (output_file # None /\ output_file' # None) =>
            \A id \in DOMAIN Get(output_file) : \A v \in Variants :
                RecordedImage(Get(output_file)[id], v) # None =>
                    /\ id \in DOMAIN Get(output_file')
                    /\ RecordedImage(Get(output_file')[id], v) # None
      ]_vars

\* C18: after download_building_images has handled a building, each
\* non-null image path of its record is the variant's path and names a file
\* that exists: it was set because the file existed (no download) or
\* because the download returned True after writing the file; a variant
\* not requested, or whose download failed, has a null path.
C18_RecordedPathNamesExistingFile ==
    last.osm_id # 0 =>
        \A v \in Variants :
            LET x == LastOf(v)
                path == ImagePath(v, last.osm_id)
            IN  /\ x.image # None =>
                      /\ x.image = Some(path)
                      /\ files[path] # None
                      /\ x.outcome \in {"skipped", "downloaded"}
                      /\ x.outcome = "skipped" =>
                            (x.dl.write = None /\ x.dl.reqs = {})
                      /\ x.outcome = "downloaded" =>
                            /\ x.dl.ret
                            /\ x.dl.write # None
                            /\ Get(x.dl.write)[1] = path
                            /\ Get(files[path]).size = Get(x.dl.write)[2]
                /\ x.outcome \in {"not_requested", "failed", "raised", "not_reached"}
                      => x.image = None

C18_Witness ==
    /\ last.fixed.outcome = "downloaded"
    /\ last.height.outcome = "failed"
    /\ last.height.image = None
    /\ files[ImagePath("fixed_pitch", last.osm_id)] # None
    /\ files[ImagePath("height_pitch", last.osm_id)] = None

\* C5: when the height is absent or zero, or the metadata lookup returns no
\* camera position, the image URL carries exactly the pitch the caller
\* supplied, the vectors are not computed and nothing is raised; with the
\* height absent or zero the lookup is not even made.
C5_FallbackUsesSuppliedPitch ==
    \A v \in Variants :
        LET x == LastOf(v)
            fallback == /\ x.dl.exc = ""
                        /\ ~x.dl.computed
                        /\ x.dl.url # None
                        /\ Get(x.dl.url).pitch = Degrees(SuppliedPitch(v))
        IN  Called(x) =>
              /\ ~Truthy(HeightOf(last.osm_id)) =>
                    /\ fallback
                    /\ x.dl.lookup = "not_made"
                    /\ \A q \in x.dl.reqs : q.api # "streetview/metadata"
              /\ x.dl.lookup = "none" => fallback

C5_Witness ==
    /\ Called(last.height)
    /\ HeightOf(last.osm_id) = Some(0)
    /\ args.pitch # DEFAULT_PITCH_ANGLE
    /\ Get(last.height.dl.url).pitch = Degrees(DEFAULT_PITCH_ANGLE)
    /\ last.height.outcome = "downloaded"

\* C6: without a configured key no HTTP request is sent: every request that
\* is sent carries a key, and the aerial fetch without a key ends in the
\* missing-key error.
C6_NoRequestWithoutKey ==
    /\ \A q \in requests : ~IsNone(q.key)
    /\ s_pc = "aerial_missing_key" => requests = {}

\* C9: in an iteration of the batch loop, a requested variant whose image
\* file exists sends no HTTP request, leaves the file as it is and records
\* the existing path; when every requested variant exists, or was recorded
\* by the previous run's output, the iteration sends no request at all; and
\* no step removes or rewrites an image file.
C9_ExistingImageIsReused ==
    [][ /\ \A q \in Paths : files[q] # None => files'[q] = files[q]
        /\ (s_pc = "loop" /\ s_i <= Len(buildings_to_process)) =>
             LET b == buildings_to_process[s_i]
                 exists(v) == files[ImagePath(v, b.osm_id)] # None
                 obtained(v) ==
                     /\ output_file # None
                     /\ b.osm_id \in DOMAIN Get(output_file)
                     /\ RecordedImage(Get(output_file)[b.osm_id], v) # None
             IN  /\ \A v \in Variants :
                       (Requested(v) /\ exists(v)) =>
                          /\ (IF v = "fixed_pitch" THEN last'.fixed
                              ELSE last'.height).dl.reqs = {}
                          /\ (IF v = "fixed_pitch" THEN last'.fixed
                              ELSE last'.height).image
                               = Some(ImagePath(v, b.osm_id))
                 /\ (\A v \in Variants : Requested(v) => exists(v))
                       => requests' = requests
                 /\ (\A v \in Variants : Requested(v) => obtained(v))
                       => requests' = requests
      ]_vars

C9_Witness ==
    /\ run = 2
    /\ last.fixed.outcome = "skipped"
    /\ last.height.outcome = "skipped"
    /\ requests = {}
    /\ s_pc = "done"
    /\ output_file # None
    /\ last.osm_id \in DOMAIN Get(output_file)

\* C10: a payload under BlankImageSize bytes is not an image: the download
\* returns False, no file is written at the path, and the building's path
\* for that variant is null.
C10_SmallPayloadIsNotAvailable ==
    \A v \in Variants :
        LET x == LastOf(v)
        IN  (x.dl.payload # None /\ Get(x.dl.payload) < BlankImageSize) =>
              /\ x.outcome = "failed"
              /\ ~x.dl.ret
              /\ x.dl.write = None
              /\ x.image = None
              /\ files[ImagePath(v, last.osm_id)] = None
              /\ (s_pc # "aborted" /\ HasImage(last)) =>
                    RecordedImage(existing_buildings[last.osm_id], v) = None

C10_Witness ==
    /\ last.fixed.dl.payload = Some(BlankImageSize - 1)
    /\ last.fixed.outcome = "failed"
    /\ last.height.outcome = "downloaded"
    /\ s_pc = "done"

\* --------------------------------------------------- claims on the fetch stage
\* C11: when the bulk query fails (the request fails or the status is an
\* error status), the run is aborted: save_osm_data is not called in that
\* run, no data is kept, and raw.json is as it was when the run started
\* (absent if it was absent, its old content otherwise).
C11_BulkFetchFailureAborts ==
    f_response \in {Some("error"), Some("http")} =>
        /\ f_pc = "aborted"
        /\ f_exc # ""
        /\ save_calls = 0
        /\ osm_data = None
        /\ raw_json = raw_json_before

C11_Witness ==
    /\ f_response = Some("http")
    /\ f_pc = "aborted"
    /\ f_run = 2
    /\ raw_json_before = Some([elements |-> Elements(2)])
    /\ raw_json = raw_json_before

====
